---------------------------- MODULE Spec2Model ----------------------------
(***************************************************************************)
(* A model of research_server.py: the arXiv search tool with its on-disk   *)
(* topic cache (papers/<topic>/papers_info.json), the lookups over that    *)
(* cache, the static ingredient tables and the interaction rules.          *)
(*                                                                         *)
(* Strings are TLA+ strings; the file system is the set of directories     *)
(* that exist plus the content of the papers_info.json of each directory   *)
(* that has one.  A directory is the tuple of its path components; the     *)
(* working directory is <<>> and the file system root is <<"/">>.          *)
(***************************************************************************)
EXTENDS Integers, Sequences, FiniteSets, TLC

VARIABLES
    dirs,     \* the directories that exist
    files,    \* directory -> content of its papers_info.json, where there is one
    pc,       \* "idle": the server waits for a request; "returned": a handler has run
    call,     \* the request being served: [op |-> ..., ...arguments]
    ret,      \* what the handler returned: [kind |-> "value" | "fault", value |-> ...]
    pre,      \* the file system the handler started from: [dirs |-> ..., files |-> ...]
    arg,      \* the input drawn for a handler that is checked on its own
    proc,     \* concurrent search_papers processes: process -> its position and locals
    hist      \* the writes of the concurrent processes, in the order they landed

vars == <<dirs, files, pc, call, ret, pre, arg, proc, hist>>

(***************************************************************************)
(* Bounds and input sets.                                                  *)
(***************************************************************************)
\* The provider returns at most this many papers when max_results sets no limit.
MaxResults == 2

\* The largest list of ingredients handed to analyze_drug_interactions.
MaxIngredients == 4

PAPER_DIR == "papers"

CACHE_FILE == "papers_info.json"

\* Topic strings: one with an upper-case letter and a space, the string it
\* normalizes to, a plain one, and one with a path separator.
Topics == {"A b", "a_b", "a", "a/b"}

PaperIds == {"p1", "p2"}

\* The publication dates a fetched record may carry: a re-fetched paper may
\* come back with a different record.
Dates == {"2024-01-01", "2024-06-30"}

MaxResultsArgs == -1 .. MaxResults

\* The names research_active_ingredient is called with: each known
\* ingredient, in some letter case or inside a longer name, a name that
\* holds two of them, and an unknown one.
IngredientNames ==
    {"acetaminophen", "Ibuprofen", "Loratadine 10mg", "ibuprofen with Acetaminophen",
     "unknown-compound-x"}

ResearchFocuses == {"safety and efficacy", "safety"}

\* The names the lists handed to analyze_drug_interactions are made of.
InteractionNames ==
    {"ibuprofen", "Ibuprofen", "naproxen", "acetaminophen", "Diphenhydramine", "loratadine"}

\* The processes that run search_papers side by side.
Procs == {1, 2}

\* The topics they search: two strings with one normal form.
SharedTopics == {"A b", "a_b"}

(***************************************************************************)
(* Strings.                                                                *)
(***************************************************************************)
Min(a, b) == IF a <= b THEN a ELSE b

\* str.upper() on one character.
UpperChar(c) ==
    CASE c = "a" -> "A" [] c = "b" -> "B" [] c = "c" -> "C" [] c = "d" -> "D"
      [] c = "e" -> "E" [] c = "f" -> "F" [] c = "g" -> "G" [] c = "h" -> "H"
      [] c = "i" -> "I" [] c = "j" -> "J" [] c = "k" -> "K" [] c = "l" -> "L"
      [] c = "m" -> "M" [] c = "n" -> "N" [] c = "o" -> "O" [] c = "p" -> "P"
      [] c = "q" -> "Q" [] c = "r" -> "R" [] c = "s" -> "S" [] c = "t" -> "T"
      [] c = "u" -> "U" [] c = "v" -> "V" [] c = "w" -> "W" [] c = "x" -> "X"
      [] c = "y" -> "Y" [] c = "z" -> "Z" [] OTHER -> c

\* str.lower() on one character.
LowerChar(c) ==
    CASE c = "A" -> "a" [] c = "B" -> "b" [] c = "C" -> "c" [] c = "D" -> "d"
      [] c = "E" -> "e" [] c = "F" -> "f" [] c = "G" -> "g" [] c = "H" -> "h"
      [] c = "I" -> "i" [] c = "J" -> "j" [] c = "K" -> "k" [] c = "L" -> "l"
      [] c = "M" -> "m" [] c = "N" -> "n" [] c = "O" -> "o" [] c = "P" -> "p"
      [] c = "Q" -> "q" [] c = "R" -> "r" [] c = "S" -> "s" [] c = "T" -> "t"
      [] c = "U" -> "u" [] c = "V" -> "v" [] c = "W" -> "w" [] c = "X" -> "x"
      [] c = "Y" -> "y" [] c = "Z" -> "z" [] OTHER -> c

RECURSIVE Lower(_)
Lower(s) == IF s = "" THEN "" ELSE LowerChar(Head(s)) \o Lower(Tail(s))

\* str.replace(old, new) for a one-character old.
RECURSIVE Replace(_, _, _)
Replace(s, old, new) ==
    IF s = "" THEN ""
    ELSE (IF Head(s) = old THEN new ELSE Head(s)) \o Replace(Tail(s), old, new)

IsLetter(c) == LowerChar(c) # c \/ UpperChar(c) # c

\* str.title(): a letter that follows a letter is lower-cased, any other
\* letter is upper-cased.
RECURSIVE TitleFrom(_, _)
TitleFrom(s, afterLetter) ==
    IF s = "" THEN ""
    ELSE LET c == Head(s)
         IN  (IF afterLetter THEN LowerChar(c) ELSE UpperChar(c))
                 \o TitleFrom(Tail(s), IsLetter(c))

Title(s) == TitleFrom(s, FALSE)

\* sep.join(strings)
RECURSIVE Join(_, _)
Join(strings, sep) ==
    IF strings = <<>> THEN ""
    ELSE IF Len(strings) = 1 THEN Head(strings)
    ELSE Head(strings) \o sep \o Join(Tail(strings), sep)

\* The sequences that list every element of a finite set once: the orders a
\* directory listing or a dictionary may be walked in.
Orders(S) ==
    {o \in [1 .. Cardinality(S) -> S] : \A i, j \in 1 .. Cardinality(S) : o[i] = o[j] => i = j}

IsOrderOf(o, S) == Len(o) = Cardinality(S) /\ {o[i] : i \in 1 .. Len(o)} = S

\* `sub in s` on strings.
Contains(s, sub) ==
    \E i \in 1 .. (Len(s) - Len(sub) + 1) : SubSeq(s, i, i + Len(sub) - 1) = sub

\* topic.lower().replace(" ", "_")
Normalize(topic) == Replace(Lower(topic), " ", "_")

(***************************************************************************)
(* Paths and the file system.                                              *)
(***************************************************************************)
\* os.path.join(a, b)
PathJoin(a, b) ==
    IF b # "" /\ Head(b) = "/" THEN b
    ELSE IF a = "" \/ SubSeq(a, Len(a), Len(a)) = "/" THEN a \o b
    ELSE a \o "/" \o b

\* The components of a path, empty ones dropped.
RECURSIVE SplitPath(_, _, _)
SplitPath(s, cur, acc) ==
    IF s = "" THEN (IF cur = "" THEN acc ELSE Append(acc, cur))
    ELSE IF Head(s) = "/"
         THEN SplitPath(Tail(s), "", IF cur = "" THEN acc ELSE Append(acc, cur))
         ELSE SplitPath(Tail(s), cur \o Head(s), acc)

\* The directory a path string names.
DirOf(path) ==
    (IF path # "" /\ Head(path) = "/" THEN <<"/">> ELSE <<>>) \o SplitPath(path, "", <<>>)

\* path = os.path.join(PAPER_DIR, topic.lower().replace(" ", "_")): the
\* directory search_papers keeps a topic's cache file in.
SearchPath(topic) == DirOf(PathJoin(PAPER_DIR, Normalize(topic)))

RootDir == DirOf(PAPER_DIR)

\* os.makedirs(path, exist_ok=True): the directory and every missing parent.
MakeDirs(ds, d) == ds \cup {SubSeq(d, 1, k) : k \in 0 .. Len(d)}

\* The entries of a directory that are directories themselves.
SubDirs(ds, d) == {e \in ds : Len(e) = Len(d) + 1 /\ SubSeq(e, 1, Len(d)) = d}

\* os.listdir(d): the names of its directories and of its cache file.
ListDir(ds, fs, d) ==
    {e[Len(e)] : e \in SubDirs(ds, d)} \cup (IF d \in DOMAIN fs THEN {CACHE_FILE} ELSE {})

\* os.path.isdir(os.path.join(d, name))
IsDir(ds, d, name) == Append(d, name) \in ds

\* os.path.isfile / os.path.exists of the cache file of a directory.
HasCacheFile(fs, d) == d \in DOMAIN fs

(***************************************************************************)
(* File contents.                                                          *)
(***************************************************************************)
EmptyMap == [p \in {} |-> 0]

\* A file json.load parses: a JSON object, identifier -> record.
Valid(m) == [valid |-> TRUE, data |-> m]

\* A file json.load rejects with JSONDecodeError: empty, cut short, or with
\* text after the document.
Corrupt == [valid |-> FALSE]

\* open(file_path, "w"): the file is created if need be and cut to nothing,
\* which json.load rejects.
OpenForWrite(fs, d) == [e \in DOMAIN fs \cup {d} |-> IF e = d THEN Corrupt ELSE fs[e]]

\* The length of a mapping written as a JSON document.  The records of the
\* model are all written with the same number of characters, so documents
\* compare in length as their numbers of entries do.
DocLen(m) == Cardinality(DOMAIN m)

\* DumpOver for a file opened with mode "a": the document lands after what
\* the file holds.
DumpAppended(existing, papers_info) ==
    IF existing.valid THEN Corrupt ELSE Valid(papers_info)

\* What a file holds once json.dump has written papers_info from the start of
\* it and the file is closed.  The open cut the file to nothing; what it
\* holds now, another process wrote since.  A longer document keeps its tail
\* behind the new one, and json.load rejects the result.
DumpOver(existing, papers_info) ==
    IF existing.valid /\ DocLen(existing.data) > DocLen(papers_info) THEN Corrupt
    ELSE Valid(papers_info)

\* json.dump(papers_info, json_file) and the close of the with block.
JsonDump(fs, d, papers_info) == [fs EXCEPT ![d] = DumpOver(fs[d], papers_info)]

(***************************************************************************)
(* The provider.                                                           *)
(***************************************************************************)
\* One result of client.results(search).
Paper(id, date) ==
    [short_id  |-> id,
     title     |-> "Title " \o id,
     authors   |-> <<"Author " \o id>>,
     summary   |-> "Summary " \o id,
     pdf_url   |-> "http://arxiv.org/pdf/" \o id,
     published |-> date]

\* What the provider may return for a search bounded to max_results: within
\* one response an identifier names one record.  The code hands max_results
\* to the client unchecked, so for max_results <= 0 the answer is the
\* provider's to choose.
ResultLimit(max_results) ==
    IF max_results > 0 THEN Min(max_results, MaxResults) ELSE MaxResults

ProviderResults(max_results) ==
    LET limit == ResultLimit(max_results)
    IN  UNION {{[i \in 1 .. k |-> Paper(ids[i], date)] : ids \in [1 .. k -> PaperIds], date \in Dates}
               : k \in 0 .. limit}

(***************************************************************************)
(* The call in progress.                                                   *)
(***************************************************************************)
NoCall == [op |-> "none"]

NoRet == [kind |-> "none"]

NoPre == [dirs |-> {}, files |-> EmptyMap]

NoArg == [kind |-> "none"]

Value(v) == [kind |-> "value", value |-> v]

Fault(e) == [kind |-> "fault", value |-> e]

Snapshot == [dirs |-> dirs, files |-> files]

(***************************************************************************)
(* search_papers                                                           *)
(***************************************************************************)
\* search_query = f"{ingredient_name} {research_focus}"
SearchQuery(ingredient_name, research_focus) == ingredient_name \o " " \o research_focus

\* Every topic string a handler of the model is called with.
AllTopics ==
    Topics \cup SharedTopics
        \cup {SearchQuery(n, f) : n \in IngredientNames, f \in ResearchFocuses}

\* SearchPath, worked out once per topic.
SearchDir == [t \in AllTopics |-> SearchPath(t)]

\* The record stored for one paper.
PaperInfo(paper) ==
    [title     |-> paper.title,
     authors   |-> paper.authors,
     summary   |-> paper.summary,
     pdf_url   |-> paper.pdf_url,
     published |-> paper.published]

\* try: json.load(file) except (FileNotFoundError, JSONDecodeError): {}
LoadPapersInfo(fs, d) ==
    IF HasCacheFile(fs, d) /\ fs[d].valid THEN fs[d].data ELSE EmptyMap

\* papers_info[key] = value
DictSet(m, key, value) ==
    [k \in DOMAIN m \cup {key} |-> IF k = key THEN value ELSE m[k]]

\* MergePapers with papers_info.setdefault(key, value) for the assignment: a
\* record already stored is not replaced.
RECURSIVE MergePapersKeepExisting(_, _)
MergePapersKeepExisting(papers_info, papers) ==
    IF papers = <<>> THEN papers_info
    ELSE MergePapersKeepExisting(
             IF Head(papers).short_id \in DOMAIN papers_info THEN papers_info
             ELSE DictSet(papers_info, Head(papers).short_id, PaperInfo(Head(papers))),
             Tail(papers))

\* for paper in papers: papers_info[paper.get_short_id()] = paper_info
RECURSIVE MergePapers(_, _)
MergePapers(papers_info, papers) ==
    IF papers = <<>> THEN papers_info
    ELSE MergePapers(DictSet(papers_info, Head(papers).short_id, PaperInfo(Head(papers))),
                     Tail(papers))

\* paper_ids.append(paper.get_short_id()) for each paper
PaperIdsOf(papers) == [i \in 1 .. Len(papers) |-> papers[i].short_id]

\* UpdatedPapersInfo without the load: papers_info starts empty.
UpdatedPapersInfoNoLoad(fs, d, papers) == MergePapers(EmptyMap, papers)

\* What the handler makes of the cache file: the loaded mapping with the
\* fetched records merged in.
UpdatedPapersInfo(fs, d, papers) == MergePapers(LoadPapersInfo(fs, d), papers)

search_papers(topic, max_results, papers) ==
    /\ pc = "idle"
    /\ Len(papers) <= ResultLimit(max_results)
    /\ dirs' = MakeDirs(dirs, SearchDir[topic])
    /\ files' = JsonDump(OpenForWrite(files, SearchDir[topic]), SearchDir[topic],
                         UpdatedPapersInfo(files, SearchDir[topic], papers))
    /\ ret' = Value(PaperIdsOf(papers))
    /\ call' = [op |-> "search_papers", topic |-> topic, max_results |-> max_results,
                papers |-> papers]
    /\ pre' = Snapshot
    /\ pc' = "returned"
    /\ UNCHANGED <<arg, proc, hist>>

\* The handler ended by the file system's fault while json.dump writes (disk
\* full, say): open(file_path, "w") has cut the file to nothing, it holds what
\* was written before the fault, and the exception goes to the caller.
search_papers_write_fault(topic) ==
    /\ pc = "idle"
    /\ dirs' = MakeDirs(dirs, SearchDir[topic])
    /\ files' = OpenForWrite(files, SearchDir[topic])
    /\ ret' = Fault("OSError")
    /\ call' = [op |-> "search_papers", topic |-> topic]
    /\ pre' = Snapshot
    /\ pc' = "returned"
    /\ UNCHANGED <<arg, proc, hist>>

(***************************************************************************)
(* extract_info                                                            *)
(***************************************************************************)
\* json.dumps(list_of_strings, indent=2), inside an object
JsonList(strings) ==
    IF strings = <<>> THEN "[]"
    ELSE "[\n    \"" \o Join(strings, "\",\n    \"") \o "\"\n  ]"

\* json.dumps(papers_info[paper_id], indent=2)
JsonDumps(info) ==
    "{\n  \"title\": \"" \o info.title
        \o "\",\n  \"authors\": " \o JsonList(info.authors)
        \o ",\n  \"summary\": \"" \o info.summary
        \o "\",\n  \"pdf_url\": \"" \o info.pdf_url
        \o "\",\n  \"published\": \"" \o info.published \o "\"\n}"

NotFoundMessage(paper_id) ==
    "There's no saved information related to paper " \o paper_id \o "."

\* The loop over os.listdir(PAPER_DIR), in the order the listing has: the
\* first directory whose cache file parses and holds paper_id answers; a file
\* that does not parse is skipped.
RECURSIVE ScanTopics(_, _, _, _)
ScanTopics(ds, fs, order, paper_id) ==
    IF order = <<>> THEN NotFoundMessage(paper_id)
    ELSE LET item_path == Append(RootDir, Head(order))
         IN  IF /\ IsDir(ds, RootDir, Head(order))
                /\ HasCacheFile(fs, item_path)
                /\ fs[item_path].valid
                /\ paper_id \in DOMAIN fs[item_path].data
             THEN JsonDumps(fs[item_path].data[paper_id])
             ELSE ScanTopics(ds, fs, Tail(order), paper_id)

\* os.listdir(PAPER_DIR) raises FileNotFoundError when there is no PAPER_DIR.
ExtractInfoResult(ds, fs, order, paper_id) ==
    IF RootDir \notin ds THEN Fault("FileNotFoundError")
    ELSE Value(ScanTopics(ds, fs, order, paper_id))

extract_info(paper_id, order) ==
    /\ pc = "idle"
    /\ IsOrderOf(order, ListDir(dirs, files, RootDir))
    /\ ret' = ExtractInfoResult(dirs, files, order, paper_id)
    /\ call' = [op |-> "extract_info", paper_id |-> paper_id, order |-> order]
    /\ pre' = Snapshot
    /\ pc' = "returned"
    /\ UNCHANGED <<dirs, files, arg, proc, hist>>

(***************************************************************************)
(* get_available_folders (the resource papers://folders)                   *)
(***************************************************************************)
\* CollectFolders with a check that the cache file parses.
RECURSIVE CollectFoldersParsed(_, _, _)
CollectFoldersParsed(ds, fs, order) ==
    IF order = <<>> THEN <<>>
    ELSE (IF /\ IsDir(ds, RootDir, Head(order))
             /\ HasCacheFile(fs, Append(RootDir, Head(order)))
             /\ fs[Append(RootDir, Head(order))].valid
          THEN <<Head(order)>> ELSE <<>>) \o CollectFoldersParsed(ds, fs, Tail(order))

\* The folders the loop collects: the listed directories that have a cache
\* file, in the order of the listing.
RECURSIVE CollectFolders(_, _, _)
CollectFolders(ds, fs, order) ==
    IF order = <<>> THEN <<>>
    ELSE (IF /\ IsDir(ds, RootDir, Head(order))
             /\ HasCacheFile(fs, Append(RootDir, Head(order)))
          THEN <<Head(order)>> ELSE <<>>) \o CollectFolders(ds, fs, Tail(order))

FolderLine(folder) == "- " \o folder \o "\n"

RECURSIVE FolderLines(_)
FolderLines(folders) ==
    IF folders = <<>> THEN "" ELSE FolderLine(Head(folders)) \o FolderLines(Tail(folders))

NoTopicsMessage == "No topics found.\n"

FoldersContent(folders) ==
    "# Available Topics\n\n"
        \o (IF folders # <<>>
            THEN FolderLines(folders)
                     \o "\nUse @" \o folders[Len(folders)] \o " to access papers in that topic.\n"
            ELSE NoTopicsMessage)

AvailableFolders(ds, fs, order) ==
    FoldersContent(IF RootDir \in ds THEN CollectFolders(ds, fs, order) ELSE <<>>)

get_available_folders(order) ==
    /\ pc = "idle"
    /\ IsOrderOf(order, ListDir(dirs, files, RootDir))
    /\ ret' = Value(AvailableFolders(dirs, files, order))
    /\ call' = [op |-> "get_available_folders", order |-> order]
    /\ pre' = Snapshot
    /\ pc' = "returned"
    /\ UNCHANGED <<dirs, files, arg, proc, hist>>

(***************************************************************************)
(* get_topic_papers (the resource papers://{topic})                        *)
(***************************************************************************)
SummaryLimit == 500

\* TopicPath without the lower().
TopicPathNoLower(topic) == DirOf(PathJoin(PAPER_DIR, Replace(topic, " ", "_")))

\* papers_file = os.path.join(PAPER_DIR, topic.lower().replace(" ", "_"), ...):
\* the directory get_topic_papers reads a topic's cache file from.
TopicPath(topic) == DirOf(PathJoin(PAPER_DIR, Replace(Lower(topic), " ", "_")))

\* TopicPath, worked out once per topic.
TopicDir == [t \in AllTopics |-> TopicPath(t)]

NoPapersMessage(topic) ==
    "# No papers found for topic: " \o topic
        \o "\n\nTry searching for papers on this topic first."

CorruptMessage(topic) ==
    "# Error reading papers data for " \o topic
        \o "\n\nThe papers data file is corrupted."

PapersHeader(topic) == "# Papers on " \o Title(Replace(topic, "_", " ")) \o "\n\n"

TotalLine(n) == "Total papers: " \o ToString(n) \o "\n\n"

PaperIdLine(paper_id) == "- **Paper ID**: " \o paper_id \o "\n"

PaperSection(paper_id, info) ==
    "## " \o info.title \o "\n"
        \o PaperIdLine(paper_id)
        \o "- **Authors**: " \o Join(info.authors, ", ") \o "\n"
        \o "- **Published**: " \o info.published \o "\n"
        \o "- **PDF URL**: [" \o info.pdf_url \o "](" \o info.pdf_url \o ")\n\n"
        \o "### Summary\n"
        \o SubSeq(info.summary, 1, Min(Len(info.summary), SummaryLimit)) \o "...\n\n"
        \o "---\n\n"

\* for paper_id, paper_info in papers_data.items(), in the order of the file
RECURSIVE PaperSections(_, _)
PaperSections(papers_data, order) ==
    IF order = <<>> THEN ""
    ELSE PaperSection(Head(order), papers_data[Head(order)])
             \o PaperSections(papers_data, Tail(order))

\* TopicPapers without the except json.JSONDecodeError.
TopicPapersNoCatch(fs, topic, order) ==
    IF ~HasCacheFile(fs, TopicDir[topic]) THEN Value(NoPapersMessage(topic))
    ELSE IF ~fs[TopicDir[topic]].valid THEN Fault("JSONDecodeError")
    ELSE LET papers_data == fs[TopicDir[topic]].data
         IN  Value(PapersHeader(topic)
                       \o TotalLine(Cardinality(DOMAIN papers_data))
                       \o PaperSections(papers_data, order))

TopicPapers(fs, topic, order) ==
    IF ~HasCacheFile(fs, TopicDir[topic]) THEN Value(NoPapersMessage(topic))
    ELSE IF ~fs[TopicDir[topic]].valid THEN Value(CorruptMessage(topic))
    ELSE LET papers_data == fs[TopicDir[topic]].data
         IN  Value(PapersHeader(topic)
                       \o TotalLine(Cardinality(DOMAIN papers_data))
                       \o PaperSections(papers_data, order))

\* The identifiers papers_data.items() walks, none when there is nothing to walk.
ItemKeys(fs, d) == IF HasCacheFile(fs, d) /\ fs[d].valid THEN DOMAIN fs[d].data ELSE {}

get_topic_papers(topic, order) ==
    /\ pc = "idle"
    /\ IsOrderOf(order, ItemKeys(files, TopicDir[topic]))
    /\ ret' = TopicPapers(files, topic, order)
    /\ call' = [op |-> "get_topic_papers", topic |-> topic, order |-> order]
    /\ pre' = Snapshot
    /\ pc' = "returned"
    /\ UNCHANGED <<dirs, files, arg, proc, hist>>

(***************************************************************************)
(* The server, one request at a time.                                      *)
(***************************************************************************)
\* The server sends the handler's result and waits for the next request.
Respond ==
    /\ pc = "returned"
    /\ pc' = "idle"
    /\ call' = NoCall
    /\ ret' = NoRet
    /\ pre' = NoPre
    /\ UNCHANGED <<dirs, files, arg, proc, hist>>

NoProc == EmptyMap

InitFileSystem ==
    /\ dirs = {<<>>, <<"/">>}
    /\ files = EmptyMap

Init ==
    /\ InitFileSystem
    /\ pc = "idle"
    /\ call = NoCall
    /\ ret = NoRet
    /\ pre = NoPre
    /\ arg = NoArg
    /\ proc = NoProc
    /\ hist = <<>>

Next ==
    \/ \E topic \in Topics, n \in MaxResultsArgs :
          \E papers \in ProviderResults(n) : search_papers(topic, n, papers)
    \/ \E topic \in Topics : search_papers_write_fault(topic)
    \/ \E paper_id \in PaperIds :
          \E order \in Orders(ListDir(dirs, files, RootDir)) : extract_info(paper_id, order)
    \/ \E order \in Orders(ListDir(dirs, files, RootDir)) : get_available_folders(order)
    \/ \E topic \in Topics :
          \E order \in Orders(ItemKeys(files, TopicDir[topic])) : get_topic_papers(topic, order)
    \/ Respond

Spec == Init /\ [][Next]_vars


(***************************************************************************)
(* research_active_ingredient                                              *)
(***************************************************************************)
RESEARCH_MAX_RESULTS == 3

EmptyProfile ==
    [safety_profile |-> "", efficacy_data |-> "", contraindications |-> <<>>]

AcetaminophenProfile ==
    [safety_profile |-> "Generally safe when used as directed. Maximum daily dose: 3000-4000mg. Hepatotoxic in overdose.",
     efficacy_data |-> "Effective analgesic and antipyretic. Onset: 30-60 minutes. Duration: 4-6 hours.",
     contraindications |-> <<"Severe liver disease", "Alcohol dependence">>]

IbuprofenProfile ==
    [safety_profile |-> "NSAID with anti-inflammatory properties. GI and cardiovascular risks with long-term use.",
     efficacy_data |-> "Effective for pain, inflammation, and fever. Onset: 20-30 minutes. Duration: 4-6 hours.",
     contraindications |-> <<"Active GI bleeding", "Severe heart failure", "Third trimester pregnancy">>]

LoratadineProfile ==
    [safety_profile |-> "Non-sedating antihistamine. Minimal side effects. Safe for long-term use.",
     efficacy_data |-> "Effective for allergic rhinitis and urticaria. Onset: 1-3 hours. Duration: 24 hours.",
     contraindications |-> <<"Known hypersensitivity">>]

\* KnownProfile with the ibuprofen branch tested first.
KnownProfileIbuprofenFirst(ingredient_name) ==
    IF Contains(Lower(ingredient_name), "ibuprofen") THEN IbuprofenProfile
    ELSE IF Contains(Lower(ingredient_name), "acetaminophen") THEN AcetaminophenProfile
    ELSE IF Contains(Lower(ingredient_name), "loratadine") THEN LoratadineProfile
    ELSE EmptyProfile

\* The if / elif / elif on ingredient_name.lower()
KnownProfile(ingredient_name) ==
    IF Contains(Lower(ingredient_name), "acetaminophen") THEN AcetaminophenProfile
    ELSE IF Contains(Lower(ingredient_name), "ibuprofen") THEN IbuprofenProfile
    ELSE IF Contains(Lower(ingredient_name), "loratadine") THEN LoratadineProfile
    ELSE EmptyProfile

ResearchSummary(ingredient_name, research_focus, paper_ids) ==
    [ingredient        |-> ingredient_name,
     research_focus    |-> research_focus,
     papers_found      |-> Len(paper_ids),
     paper_ids         |-> paper_ids,
     key_findings      |-> <<>>,
     safety_profile    |-> KnownProfile(ingredient_name).safety_profile,
     efficacy_data     |-> KnownProfile(ingredient_name).efficacy_data,
     contraindications |-> KnownProfile(ingredient_name).contraindications]

\* The handler runs search_papers(search_query, max_results=3) before it
\* fills the summary: the cache of search_query is made and written.
research_active_ingredient(papers) ==
    /\ pc = "idle"
    /\ arg.kind = "research"
    /\ Len(papers) <= ResultLimit(RESEARCH_MAX_RESULTS)
    /\ LET topic == SearchQuery(arg.ingredient_name, arg.research_focus)
       IN  /\ dirs' = MakeDirs(dirs, SearchDir[topic])
           /\ files' = JsonDump(OpenForWrite(files, SearchDir[topic]), SearchDir[topic],
                                UpdatedPapersInfo(files, SearchDir[topic], papers))
    /\ ret' = Value(ResearchSummary(arg.ingredient_name, arg.research_focus,
                                    PaperIdsOf(papers)))
    /\ call' = [op |-> "research_active_ingredient",
                ingredient_name |-> arg.ingredient_name,
                research_focus |-> arg.research_focus, papers |-> papers]
    /\ pre' = Snapshot
    /\ pc' = "returned"
    /\ UNCHANGED <<arg, proc, hist>>

InitResearch ==
    /\ InitFileSystem
    /\ pc = "idle"
    /\ call = NoCall
    /\ ret = NoRet
    /\ pre = NoPre
    /\ arg \in {[kind |-> "research", ingredient_name |-> n, research_focus |-> f] :
                   n \in IngredientNames, f \in ResearchFocuses}
    /\ proc = NoProc
    /\ hist = <<>>

NextResearch ==
    \/ \E papers \in ProviderResults(RESEARCH_MAX_RESULTS) : research_active_ingredient(papers)
    \/ Respond

SpecResearch == InitResearch /\ [][NextResearch]_vars

(***************************************************************************)
(* analyze_drug_interactions                                               *)
(***************************************************************************)
NSAIDS == {"ibuprofen", "naproxen", "aspirin", "diclofenac"}

SEDATING_ANTIHISTAMINES == {"diphenhydramine", "chlorpheniramine", "doxylamine"}

NsaidInteraction ==
    [type        |-> "Increased NSAID exposure",
     severity    |-> "Moderate to High",
     description |-> "Multiple NSAIDs increase risk of GI bleeding and kidney damage"]

NsaidWarning == "Avoid combining multiple NSAIDs"

AlcoholWarning == "Limit alcohol consumption - increases liver toxicity risk"

DrowsinessWarning == "May cause drowsiness - avoid driving or operating machinery"

NoInteractionsRecommendation == "No major interactions identified between these ingredients"

\* ingredient_set = set(ing.lower() for ing in ingredients)
IngredientSet(ingredients) == {Lower(ingredients[i]) : i \in 1 .. Len(ingredients)}

\* NsaidCount over the list instead of the set: a name given twice counts twice.
NsaidCountOfList(ingredients) ==
    Cardinality({i \in 1 .. Len(ingredients) : Lower(ingredients[i]) \in NSAIDS})

\* nsaid_count = len(ingredient_set.intersection(nsaids))
NsaidCount(ingredients) == Cardinality(IngredientSet(ingredients) \cap NSAIDS)

AnalyzeDrugInteractions(ingredients) ==
    LET ingredient_set == IngredientSet(ingredients)
        potential_interactions ==
            IF NsaidCount(ingredients) > 1 THEN <<NsaidInteraction>> ELSE <<>>
    IN  [ingredients_analyzed   |-> ingredients,
         potential_interactions |-> potential_interactions,
         warnings |->
             (IF NsaidCount(ingredients) > 1 THEN <<NsaidWarning>> ELSE <<>>)
                 \o (IF "acetaminophen" \in ingredient_set THEN <<AlcoholWarning>> ELSE <<>>)
                 \o (IF ingredient_set \cap SEDATING_ANTIHISTAMINES # {}
                     THEN <<DrowsinessWarning>> ELSE <<>>),
         recommendations |->
             IF potential_interactions = <<>> THEN <<NoInteractionsRecommendation>> ELSE <<>>]

analyze_drug_interactions ==
    /\ pc = "idle"
    /\ arg.kind = "interactions"
    /\ ret' = Value(AnalyzeDrugInteractions(arg.ingredients))
    /\ call' = [op |-> "analyze_drug_interactions", ingredients |-> arg.ingredients]
    /\ pre' = Snapshot
    /\ pc' = "returned"
    /\ UNCHANGED <<dirs, files, arg, proc, hist>>

IngredientLists ==
    UNION {[1 .. k -> InteractionNames] : k \in 0 .. MaxIngredients}

InitInteractions ==
    /\ InitFileSystem
    /\ pc = "idle"
    /\ call = NoCall
    /\ ret = NoRet
    /\ pre = NoPre
    /\ arg \in {[kind |-> "interactions", ingredients |-> l] : l \in IngredientLists}
    /\ proc = NoProc
    /\ hist = <<>>

NextInteractions ==
    \/ analyze_drug_interactions
    \/ Respond

SpecInteractions == InitInteractions /\ [][NextInteractions]_vars

(***************************************************************************)
(* search_papers run by several processes at once, a step at a time.       *)
(***************************************************************************)
DEFAULT_MAX_RESULTS == 5

NotStarted ==
    [pc |-> "begin", topic |-> "", papers |-> <<>>, papers_info |-> EmptyMap, opened_at |-> 0]

\* Up to os.makedirs(path, exist_ok=True).
search_papers_begin(p, topic, papers) ==
    /\ proc[p].pc = "begin"
    /\ Len(papers) <= ResultLimit(DEFAULT_MAX_RESULTS)
    /\ dirs' = MakeDirs(dirs, SearchDir[topic])
    /\ proc' = [proc EXCEPT ![p] = [@ EXCEPT !.pc = "load", !.topic = topic, !.papers = papers]]
    /\ UNCHANGED <<files, pc, call, ret, pre, arg, hist>>

\* The try / except around json.load, and the loop that merges the results.
search_papers_load(p) ==
    /\ proc[p].pc = "load"
    /\ proc' = [proc EXCEPT ![p] =
                   [@ EXCEPT !.pc = "open",
                             !.papers_info = UpdatedPapersInfo(files, SearchDir[proc[p].topic],
                                                               proc[p].papers)]]
    /\ UNCHANGED <<dirs, files, pc, call, ret, pre, arg, hist>>

\* with open(file_path, "w") as json_file
search_papers_open(p) ==
    /\ proc[p].pc = "open"
    /\ files' = OpenForWrite(files, SearchDir[proc[p].topic])
    /\ proc' = [proc EXCEPT ![p] = [@ EXCEPT !.pc = "dump", !.opened_at = Len(hist)]]
    /\ UNCHANGED <<dirs, pc, call, ret, pre, arg, hist>>

\* json.dump(papers_info, json_file, indent=2), the close, and the return.
search_papers_dump(p) ==
    /\ proc[p].pc = "dump"
    /\ files' = JsonDump(files, SearchDir[proc[p].topic], proc[p].papers_info)
    /\ hist' = Append(hist, [proc |-> p, data |-> proc[p].papers_info,
                             opened_at |-> proc[p].opened_at])
    /\ proc' = [proc EXCEPT ![p] = [@ EXCEPT !.pc = "done"]]
    /\ UNCHANGED <<dirs, pc, call, ret, pre, arg>>

\* The cache the processes share is absent, or holds a record of an earlier
\* search.
InitConcurrent ==
    /\ \/ InitFileSystem
       \/ \E date \in Dates :
             /\ dirs = MakeDirs({<<>>, <<"/">>}, SearchDir["a_b"])
             /\ files = JsonDump(OpenForWrite(EmptyMap, SearchDir["a_b"]), SearchDir["a_b"],
                                 MergePapers(EmptyMap, <<Paper("p1", date)>>))
    /\ pc = "idle"
    /\ call = NoCall
    /\ ret = NoRet
    /\ pre = NoPre
    /\ arg = NoArg
    /\ proc = [p \in Procs |-> NotStarted]
    /\ hist = <<>>

NextConcurrent ==
    \E p \in Procs :
        \/ \E topic \in SharedTopics :
              \E papers \in ProviderResults(DEFAULT_MAX_RESULTS) :
                  search_papers_begin(p, topic, papers)
        \/ search_papers_load(p)
        \/ search_papers_open(p)
        \/ search_papers_dump(p)

SpecConcurrent == InitConcurrent /\ [][NextConcurrent]_vars

(***************************************************************************)
(* The claims about the cache, checked under Spec.                         *)
(***************************************************************************)
Returned(op) == pc = "returned" /\ call.op = op

\* The mapping a cache file stands for: what it holds when it parses, the
\* empty mapping when it is absent or does not parse.
Stored(fs, d) == IF d \in DOMAIN fs /\ fs[d].valid THEN fs[d].data ELSE EmptyMap

FetchedIds(papers) == {papers[i].short_id : i \in 1 .. Len(papers)}

\* The cache files that hold a record for paper_id.
Holders(fs, paper_id) == {d \in DOMAIN fs : paper_id \in DOMAIN Stored(fs, d)}

\* How often sub occurs in s.
Occurrences(s, sub) ==
    Cardinality({i \in 1 .. (Len(s) - Len(sub) + 1) : SubSeq(s, i, i + Len(sub) - 1) = sub})

ReadOps == {"extract_info", "get_available_folders", "get_topic_papers"}

\* C1: when search_papers(T, n) has completed, the cache file of T holds the
\* mapping it held before (empty if the file was absent or did not parse)
\* overridden by the fetched records: identifiers stored before and not
\* fetched keep their record, every fetched identifier has its fetched
\* record, and there is no other identifier.
C1_SearchMergesIntoCache ==
    (Returned("search_papers") /\ ret.kind = "value") =>
        LET d == SearchDir[call.topic]
            old == Stored(pre.files, d)
            fetched == FetchedIds(call.papers)
        IN  /\ d \in DOMAIN files
            /\ files[d].valid
            /\ DOMAIN files[d].data = DOMAIN old \cup fetched
            /\ \A p \in DOMAIN old \ fetched : files[d].data[p] = old[p]
            /\ \A i \in 1 .. Len(call.papers) :
                  files[d].data[call.papers[i].short_id] = PaperInfo(call.papers[i])

\* A search has kept one stored record and replaced another by a different one.
C1_Witness ==
    /\ Returned("search_papers")
    /\ ret.kind = "value"
    /\ LET old == Stored(pre.files, SearchDir[call.topic])
           fetched == FetchedIds(call.papers)
       IN  /\ DOMAIN old \ fetched # {}
           /\ \E p \in DOMAIN old \cap fetched : files[SearchDir[call.topic]].data[p] # old[p]

\* C2, as claimed: for max_results <= 0 search_papers returns no identifier
\* and leaves every directory and cache file as it was.
C2_NonPositiveLeavesCacheAlone ==
    (Returned("search_papers") /\ ret.kind = "value" /\ call.max_results <= 0) =>
        /\ ret.value = <<>>
        /\ dirs = pre.dirs
        /\ files = pre.files

\* C2, amended: for max_results <= 0 search_papers returns the identifiers
\* of whatever the provider yields, and when the provider yields nothing it
\* returns the empty list and changes no stored record, but the topic
\* directory exists afterwards and the cache file has been written: it holds
\* the mapping it stood for before, the empty mapping if it was absent or did
\* not parse.  No other file changes.
C2_NonPositiveStillWritesFile ==
    (Returned("search_papers") /\ ret.kind = "value" /\ call.max_results <= 0) =>
        LET d == SearchDir[call.topic]
        IN  /\ Len(ret.value) = Len(call.papers)
            /\ \A i \in 1 .. Len(call.papers) : ret.value[i] = call.papers[i].short_id
            /\ call.papers = <<>> =>
                  /\ ret.value = <<>>
                  /\ d \in dirs
                  /\ pre.dirs \subseteq dirs
                  /\ DOMAIN files = DOMAIN pre.files \cup {d}
                  /\ files[d] = Valid(Stored(pre.files, d))
                  /\ \A e \in DOMAIN pre.files \ {d} : files[e] = pre.files[e]

\* A search with max_results <= 0 and no result has created a cache file.
C2_Witness ==
    /\ Returned("search_papers")
    /\ ret.kind = "value"
    /\ call.max_results <= 0
    /\ call.papers = <<>>
    /\ SearchDir[call.topic] \notin DOMAIN pre.files
    /\ SearchDir[call.topic] \in DOMAIN files

\* C3, as claimed: extract_info of an identifier no cache file holds returns
\* the not-found message with the identifier in it, whatever the state.
C3_AbsentIdGetsNotFound ==
    (Returned("extract_info") /\ Holders(pre.files, call.paper_id) = {}) =>
        ret = Value(NotFoundMessage(call.paper_id))

\* C4, as claimed: extract_info of an identifier that exactly one cache file
\* holds returns that file's record.
C4_SingleHolderIsFound ==
    Returned("extract_info") =>
        \A d \in DOMAIN pre.files :
            Holders(pre.files, call.paper_id) = {d} =>
                ret = Value(JsonDumps(pre.files[d].data[call.paper_id]))

\* The directories right under PAPER_DIR, by name.
TopLevelNames(ds) == {e[Len(e)] : e \in SubDirs(ds, RootDir)}

\* C5, as claimed: the folder list names a directory under PAPER_DIR exactly
\* when its cache file parses, and is the no-topics message exactly when no
\* directory has a cache file that parses.
C5_ListsValidCaches ==
    Returned("get_available_folders") =>
        LET valid == {n \in TopLevelNames(dirs) :
                         /\ Append(RootDir, n) \in DOMAIN files
                         /\ files[Append(RootDir, n)].valid}
        IN  /\ ret.kind = "value"
            /\ \A n \in TopLevelNames(dirs) : Contains(ret.value, FolderLine(n)) <=> n \in valid
            /\ Contains(ret.value, NoTopicsMessage) <=> valid = {}

\* C5, amended: the folder list names a directory right under PAPER_DIR
\* exactly when the directory has a cache file, whether the file parses or
\* not, and is the no-topics message exactly when no such directory has one.
C5_ListsExistingCaches ==
    Returned("get_available_folders") =>
        LET present == {n \in TopLevelNames(dirs) : Append(RootDir, n) \in DOMAIN files}
        IN  /\ ret.kind = "value"
            /\ \A n \in TopLevelNames(dirs) : Contains(ret.value, FolderLine(n)) <=> n \in present
            /\ Contains(ret.value, NoTopicsMessage) <=> present = {}

\* The folder list names a directory whose cache file does not parse, and
\* leaves out a directory that has no cache file.
C5_Witness ==
    /\ Returned("get_available_folders")
    /\ \E n \in TopLevelNames(dirs) :
          /\ Append(RootDir, n) \in DOMAIN files
          /\ ~files[Append(RootDir, n)].valid
          /\ Contains(ret.value, FolderLine(n))
    /\ \E n \in TopLevelNames(dirs) :
          /\ Append(RootDir, n) \notin DOMAIN files
          /\ ~Contains(ret.value, FolderLine(n))

\* C6: a mapping M that search_papers wrote for topic T is what every later
\* load for a topic T' with the same normal form sees, as long as nothing
\* writes in between: the lookups write nothing; get_topic_papers(T') shows
\* the count of M and one section for each identifier of M, never the
\* try-searching message; and the next search_papers(T') keeps the records
\* of M it does not fetch again.
C6_RoundTrip ==
    /\ (pc = "returned" /\ call.op \in ReadOps) => (files = pre.files /\ dirs = pre.dirs)
    /\ Returned("get_topic_papers") =>
          \A T \in Topics :
              (/\ Normalize(T) = Normalize(call.topic)
               /\ SearchDir[T] \in DOMAIN files
               /\ files[SearchDir[T]].valid) =>
                  LET M == files[SearchDir[T]].data
                  IN  /\ ret.kind = "value"
                      /\ Contains(ret.value, "Total papers: " \o ToString(Cardinality(DOMAIN M)) \o "\n")
                      /\ Occurrences(ret.value, "- **Paper ID**: ") = Cardinality(DOMAIN M)
                      /\ \A p \in DOMAIN M : Contains(ret.value, "- **Paper ID**: " \o p \o "\n")
                      /\ ~Contains(ret.value, "Try searching")
    /\ (Returned("search_papers") /\ ret.kind = "value") =>
          \A T \in Topics :
              (/\ Normalize(T) = Normalize(call.topic)
               /\ SearchDir[T] \in DOMAIN pre.files
               /\ pre.files[SearchDir[T]].valid) =>
                  LET M == pre.files[SearchDir[T]].data
                      now == Stored(files, SearchDir[call.topic])
                  IN  /\ DOMAIN M \subseteq DOMAIN now
                      /\ \A p \in DOMAIN M \ FetchedIds(call.papers) : now[p] = M[p]

\* get_topic_papers has shown, for a topic string other than the one its
\* normal form is, a cache of two records.
C6_Witness ==
    /\ Returned("get_topic_papers")
    /\ call.topic # Normalize(call.topic)
    /\ Cardinality(DOMAIN Stored(files, SearchDir[Normalize(call.topic)])) = 2
    /\ Contains(ret.value, "Total papers: 2\n")

\* C7: get_topic_papers never faults: it returns the try-searching message
\* when the topic's cache file is absent, the error-reading message when the
\* file does not parse, and the rendered papers otherwise.
C7_RenderNeverFaults ==
    Returned("get_topic_papers") =>
        LET d == SearchDir[call.topic]
        IN  /\ ret.kind = "value"
            /\ d \notin DOMAIN files =>
                  /\ Contains(ret.value, "# No papers found for topic: " \o call.topic)
                  /\ Contains(ret.value, "Try searching for papers on this topic first.")
            /\ (d \in DOMAIN files /\ ~files[d].valid) =>
                  /\ Contains(ret.value, "# Error reading papers data for " \o call.topic)
                  /\ Contains(ret.value, "The papers data file is corrupted.")
            /\ (d \in DOMAIN files /\ files[d].valid) =>
                  /\ SubSeq(ret.value, 1, 12) = "# Papers on "
                  /\ Contains(ret.value, "Total papers: ")
                  /\ \A p \in DOMAIN files[d].data :
                        Contains(ret.value, PaperSection(p, files[d].data[p]))

\* get_topic_papers has answered for a topic whose cache file does not parse.
C7_Witness ==
    /\ Returned("get_topic_papers")
    /\ SearchDir[call.topic] \in DOMAIN files
    /\ ~files[SearchDir[call.topic]].valid
    /\ Contains(ret.value, "The papers data file is corrupted.")

(***************************************************************************)
(* The claims about the static tables, checked under SpecInteractions and  *)
(* SpecResearch.                                                           *)
(***************************************************************************)
Range(seq) == {seq[i] : i \in 1 .. Len(seq)}

\* C8: analyze_drug_interactions decides each rule on the set of lower-cased
\* names, each on its own: one "Increased NSAID exposure" entry, with the
\* NSAID warning, when the set holds two or more of ibuprofen, naproxen,
\* aspirin, diclofenac, and no entry otherwise; the alcohol warning exactly
\* when the set holds acetaminophen; the drowsiness warning exactly when it
\* holds diphenhydramine, chlorpheniramine or doxylamine; the no-major-
\* interactions recommendation exactly when there is no entry.
C8_InteractionRules ==
    Returned("analyze_drug_interactions") =>
        LET names == {Lower(n) : n \in Range(call.ingredients)}
            nsaids == names \cap {"ibuprofen", "naproxen", "aspirin", "diclofenac"}
            sedating == names \cap {"diphenhydramine", "chlorpheniramine", "doxylamine"}
            r == ret.value
        IN  /\ ret.kind = "value"
            /\ r.ingredients_analyzed = call.ingredients
            /\ Cardinality(nsaids) >= 2 =>
                  /\ Len(r.potential_interactions) = 1
                  /\ r.potential_interactions[1].type = "Increased NSAID exposure"
            /\ Cardinality(nsaids) < 2 => r.potential_interactions = <<>>
            /\ "Avoid combining multiple NSAIDs" \in Range(r.warnings)
                  <=> Cardinality(nsaids) >= 2
            /\ "Limit alcohol consumption - increases liver toxicity risk" \in Range(r.warnings)
                  <=> "acetaminophen" \in names
            /\ "May cause drowsiness - avoid driving or operating machinery" \in Range(r.warnings)
                  <=> sedating # {}
            /\ Len(r.warnings) = Cardinality(Range(r.warnings))
            /\ r.recommendations =
                  IF r.potential_interactions = <<>>
                  THEN <<"No major interactions identified between these ingredients">>
                  ELSE <<>>

\* All three rules have fired on one list, and on another a repeated NSAID
\* has not counted as two.
C8_Witness ==
    /\ Returned("analyze_drug_interactions")
    /\ \/ /\ Len(ret.value.potential_interactions) = 1
          /\ Len(ret.value.warnings) = 3
          /\ ret.value.recommendations = <<>>
       \/ /\ call.ingredients = <<"ibuprofen", "Ibuprofen">>
          /\ ret.value.potential_interactions = <<>>

\* The known ingredients, in the order the handler tests them.
KnownKeys == <<"acetaminophen", "ibuprofen", "loratadine">>

ProfileOfKey(key) ==
    CASE key = "acetaminophen" -> AcetaminophenProfile
      [] key = "ibuprofen" -> IbuprofenProfile
      [] key = "loratadine" -> LoratadineProfile

\* C9: research_active_ingredient runs one search on the topic
\* "{name} {focus}", reports the identifiers it returned and their number,
\* and fills safety_profile, efficacy_data and contraindications from the
\* first of acetaminophen, ibuprofen, loratadine that is in the lower-cased
\* name; with none in it the three are empty, whatever was found.
C9_ResearchSummary ==
    Returned("research_active_ingredient") =>
        LET name == call.ingredient_name
            focus == call.research_focus
            d == <<PAPER_DIR, Normalize(name \o " " \o focus)>>
            r == ret.value
            hits == {i \in 1 .. Len(KnownKeys) : Contains(Lower(name), KnownKeys[i])}
            first == CHOOSE i \in hits : \A j \in hits : i <= j
        IN  /\ ret.kind = "value"
            /\ r.ingredient = name
            /\ r.research_focus = focus
            /\ r.paper_ids = [i \in 1 .. Len(call.papers) |-> call.papers[i].short_id]
            /\ r.papers_found = Len(r.paper_ids)
            /\ r.papers_found <= RESEARCH_MAX_RESULTS
            /\ d \in DOMAIN files
            /\ files[d].valid
            /\ DOMAIN files[d].data = DOMAIN Stored(pre.files, d) \cup FetchedIds(call.papers)
            /\ \A e \in DOMAIN files \ {d} : e \in DOMAIN pre.files /\ files[e] = pre.files[e]
            /\ r.key_findings = <<>>
            /\ IF hits = {}
               THEN /\ r.safety_profile = ""
                    /\ r.efficacy_data = ""
                    /\ r.contraindications = <<>>
               ELSE /\ r.safety_profile = ProfileOfKey(KnownKeys[first]).safety_profile
                    /\ r.efficacy_data = ProfileOfKey(KnownKeys[first]).efficacy_data
                    /\ r.contraindications = ProfileOfKey(KnownKeys[first]).contraindications
                    /\ r.safety_profile # ""

\* A name that holds ibuprofen before acetaminophen got the acetaminophen
\* profile, or an unknown name got an empty profile beside papers found.
C9_Witness ==
    /\ Returned("research_active_ingredient")
    /\ \/ /\ call.ingredient_name = "ibuprofen with Acetaminophen"
          /\ ret.value.contraindications = <<"Severe liver disease", "Alcohol dependence">>
       \/ /\ call.ingredient_name = "unknown-compound-x"
          /\ ret.value.papers_found > 0
          /\ ret.value.safety_profile = ""

(***************************************************************************)
(* The claim about concurrent searches, checked under SpecConcurrent.      *)
(***************************************************************************)
AllDone == \A p \in Procs : proc[p].pc = "done"

\* The directory of the cache the processes share.
SharedDir == <<PAPER_DIR, "a_b">>

\* C10, as claimed: when the searches have ended, the cache file is the
\* mapping that the search which wrote last wrote.
C10_LastWriterWins ==
    (proc # NoProc /\ AllDone) => files[SharedDir] = Valid(hist[Len(hist)].data)

\* C10, amended: when the searches have ended, the cache file is the mapping
\* that the search which wrote last wrote, unless that search opened the file
\* before the other one wrote and its document is the shorter one: then the
\* file is the last document followed by the tail of the other and does not
\* parse.
C10_LastWriterWinsOrTailRemains ==
    (proc # NoProc /\ AllDone) =>
        LET n == Len(hist)
            last == hist[n]
        IN  /\ n = Cardinality(Procs)
            /\ IF /\ last.opened_at < n - 1
                  /\ DocLen(last.data) < DocLen(hist[n - 1].data)
               THEN files[SharedDir] = Corrupt
               ELSE files[SharedDir] = Valid(last.data)

\* Both searches have ended, the file parses, and a record one of them
\* fetched is not in it.
C10_Witness ==
    /\ proc # NoProc
    /\ AllDone
    /\ files[SharedDir].valid
    /\ \E p \in Procs : FetchedIds(proc[p].papers) \ DOMAIN files[SharedDir].data # {}

=============================================================================
